---- MODULE Spec2Model ----
(***************************************************************************)
(* Model of src/src/consumer_complaints.py: the batch pipeline             *)
(*   read_csv -> analyse_data -> sort_write_csv                            *)
(* Strings are sequences of one-character strings, so that strip(),        *)
(* lower(), strptime() and string comparison are computed character by     *)
(* character.  Python's None is the empty tuple; a value that may be None  *)
(* is wrapped in a one-element tuple.                                      *)
(***************************************************************************)
EXTENDS Integers, Sequences, FiniteSets, TLC

VARIABLES csv_file, csv_reader, num_columns, data_dictionary, key_order,
          report_output, sorted_by_product_year, output_file, pc, error

vars == <<csv_file, csv_reader, num_columns, data_dictionary, key_order,
          report_output, sorted_by_product_year, output_file, pc, error>>

None == <<>>

(***************************************************************************)
(* Characters                                                              *)
(***************************************************************************)
UpperCase == <<"A","B","C","D","E","F","G","H","I","J","K","L","M",
               "N","O","P","Q","R","S","T","U","V","W","X","Y","Z">>
LowerCase == <<"a","b","c","d","e","f","g","h","i","j","k","l","m",
               "n","o","p","q","r","s","t","u","v","w","x","y","z">>
Digits == <<"0","1","2","3","4","5","6","7","8","9">>
Whitespace == {" ", "\t"}

IndexIn(c, alphabet) == CHOOSE i \in 1..Len(alphabet) : alphabet[i] = c
IsIn(c, alphabet) == \E i \in 1..Len(alphabet) : alphabet[i] = c

\* code point of a character (ASCII)
Ord(c) ==
  IF c = "\t" THEN 9
  ELSE IF c = " " THEN 32
  ELSE IF c = "," THEN 44
  ELSE IF c = "-" THEN 45
  ELSE IF IsIn(c, Digits) THEN 47 + IndexIn(c, Digits)
  ELSE IF IsIn(c, UpperCase) THEN 64 + IndexIn(c, UpperCase)
  ELSE 96 + IndexIn(c, LowerCase)

IsDigit(c) == IsIn(c, Digits)
DigitVal(c) == IndexIn(c, Digits) - 1

\* int() of a string of digits, leading blanks ignored
RECURSIVE ToInt(_)
ToInt(s) ==
  IF s = <<>> THEN 0
  ELSE IF s[Len(s)] = " " THEN ToInt(SubSeq(s, 1, Len(s) - 1))
  ELSE 10 * ToInt(SubSeq(s, 1, Len(s) - 1)) + DigitVal(s[Len(s)])

\* str() of a non-negative int
RECURSIVE ToStr(_)
ToStr(n) ==
  IF n < 10 THEN <<Digits[n + 1]>>
  ELSE Append(ToStr(n \div 10), Digits[(n % 10) + 1])

(***************************************************************************)
(* clean_text: txt.strip().lower()                                         *)
(***************************************************************************)
RECURSIVE lstrip(_)
lstrip(s) ==
  IF s # <<>> /\ s[1] \in Whitespace THEN lstrip(Tail(s)) ELSE s

RECURSIVE rstrip(_)
rstrip(s) ==
  IF s # <<>> /\ s[Len(s)] \in Whitespace
  THEN rstrip(SubSeq(s, 1, Len(s) - 1)) ELSE s

strip(s) == rstrip(lstrip(s))

lower_char(c) ==
  IF IsIn(c, UpperCase) THEN LowerCase[IndexIn(c, UpperCase)] ELSE c

lower(s) == [i \in 1..Len(s) |-> lower_char(s[i])]

clean_text_nolower(txt) == strip(txt)
clean_text(txt) == lower(strip(txt))

(***************************************************************************)
(* get_year: datetime.strptime(date_str, '%Y-%m-%d').year, None on any     *)
(* exception.  strptime matches the regular expression                     *)
(*   \d\d\d\d-(1[0-2]|0[1-9]|[1-9])-(3[0-1]|[1-2]\d|0[1-9]|[1-9]| [1-9])   *)
(* at the start of the string, requires the match to end at the end of     *)
(* the string, and then builds a date, which checks the year and the day   *)
(* of the month.                                                           *)
(***************************************************************************)
At(s, i) == IF i >= 1 /\ i <= Len(s) THEN s[i] ELSE ""

NonZeroDigit(c) == IsDigit(c) /\ c # "0"

\* length of the month alternative alt matched at position i, 0 if none
MonthLen(s, i, alt) ==
  IF alt = 1 THEN (IF At(s, i) = "1" /\ At(s, i + 1) \in {"0","1","2"} THEN 2 ELSE 0)
  ELSE IF alt = 2 THEN (IF At(s, i) = "0" /\ NonZeroDigit(At(s, i + 1)) THEN 2 ELSE 0)
  ELSE (IF NonZeroDigit(At(s, i)) THEN 1 ELSE 0)

\* length of the first day alternative that matches at position i, 0 if none
DayLen(s, i) ==
  IF At(s, i) = "3" /\ At(s, i + 1) \in {"0","1"} THEN 2
  ELSE IF At(s, i) \in {"1","2"} /\ IsDigit(At(s, i + 1)) THEN 2
  ELSE IF At(s, i) = "0" /\ NonZeroDigit(At(s, i + 1)) THEN 2
  ELSE IF NonZeroDigit(At(s, i)) THEN 1
  ELSE IF At(s, i) = " " /\ NonZeroDigit(At(s, i + 1)) THEN 2
  ELSE 0

\* the month alternative alt leads to a match of the whole pattern
MonthAltMatches(s, alt) ==
  /\ MonthLen(s, 6, alt) > 0
  /\ At(s, 6 + MonthLen(s, 6, alt)) = "-"
  /\ DayLen(s, 7 + MonthLen(s, 6, alt)) > 0

\* the regular expression's match: None, or <<year, month, day, end>>
format_regex_match(s) ==
  IF /\ \A i \in 1..4 : IsDigit(At(s, i))
     /\ At(s, 5) = "-"
     /\ \E alt \in 1..3 : MonthAltMatches(s, alt)
  THEN LET alt == CHOOSE a \in 1..3 :
                    /\ MonthAltMatches(s, a)
                    /\ \A b \in 1..(a - 1) : ~MonthAltMatches(s, b)
           ml  == MonthLen(s, 6, alt)
           dl  == DayLen(s, 7 + ml)
       IN  <<ToInt(SubSeq(s, 1, 4)), ToInt(SubSeq(s, 6, 5 + ml)),
             ToInt(SubSeq(s, 7 + ml, 6 + ml + dl)), 6 + ml + dl>>
  ELSE None

IsLeap(y) == (y % 4 = 0) /\ ((y % 100 # 0) \/ (y % 400 = 0))

DaysInMonth(y, m) ==
  IF m = 2 THEN (IF IsLeap(y) THEN 29 ELSE 28)
  ELSE IF m \in {4, 6, 9, 11} THEN 30 ELSE 31

get_year(date_str) ==
  LET found == format_regex_match(date_str) IN
  IF found = None THEN None
  ELSE IF found[4] # Len(date_str) THEN None
  ELSE IF found[1] < 1 THEN None
  ELSE IF found[3] > DaysInMonth(found[1], found[2]) THEN None
  ELSE <<found[1]>>

(***************************************************************************)
(* Floating point.  max/total*100 is evaluated in IEEE-754 binary64: the   *)
(* true division of two ints is the correctly rounded quotient, the        *)
(* product with 100 is rounded again, and round() rounds the resulting     *)
(* double half-to-even.  A positive double is M * 2^(e - 52) with a 53-bit *)
(* mantissa 2^52 <= M < 2^53; it is modelled as [m |-> the mantissa as     *)
(* five limbs in base 2^13, most significant first (the first limb is the  *)
(* leading 1), e |-> the exponent].  Zero has an all-zero mantissa.  All   *)
(* intermediate values stay below 2^31 for operands below 2^17.            *)
(***************************************************************************)
LimbBits == 13
NumLimbs == 5
Base == 2 ^ LimbBits

FloatZero == [m |-> [i \in 1..NumLimbs |-> 0], e |-> 0]

\* scale n/d into [1, 2): <<n', d', e>> with n/d = (n'/d') * 2^e
RECURSIVE Normalise(_, _, _)
Normalise(n, d, e) ==
  IF n < d THEN Normalise(2 * n, d, e - 1)
  ELSE IF n >= 2 * d THEN Normalise(n, 2 * d, e + 1)
  ELSE <<n, d, e>>

\* long division in base 2^13: the remainder of r / d after k limbs
RECURSIVE DivRem(_, _, _)
DivRem(r, d, k) ==
  IF k = 0 THEN r ELSE (DivRem(r, d, k - 1) * Base) % d

\* the k-th limb of the quotient
DivLimb(r, d, k) == (DivRem(r, d, k - 1) * Base) \div d

\* mantissa + 1; a carry out of the top limb halves the mantissa
Increment(x) ==
  IF \A j \in 2..NumLimbs : x.m[j] = Base - 1
  THEN [m |-> [j \in 1..NumLimbs |-> IF j = 1 THEN 1 ELSE 0], e |-> x.e + 1]
  ELSE LET k == CHOOSE j \in 2..NumLimbs :
                  /\ x.m[j] # Base - 1
                  /\ \A i \in (j + 1)..NumLimbs : x.m[i] = Base - 1
       IN  [m |-> [j \in 1..NumLimbs |->
                     IF j < k THEN x.m[j] ELSE IF j = k THEN x.m[j] + 1 ELSE 0],
            e |-> x.e]

\* round-to-nearest-even given whether the discarded part is above or
\* exactly at one half unit in the last place
RoundNearestEven(x, aboveHalf, atHalf) ==
  IF aboveHalf \/ (atHalf /\ x.m[NumLimbs] % 2 = 1) THEN Increment(x) ELSE x

\* a / b for ints a >= 0, b > 0
FloatDiv(a, b) ==
  IF a = 0 \/ b = 0 THEN FloatZero
  ELSE LET nde == Normalise(a, b, 0)
           r0  == nde[1] - nde[2]
           rem == DivRem(r0, nde[2], NumLimbs - 1)
       IN  RoundNearestEven(
             [m |-> [j \in 1..NumLimbs |->
                       IF j = 1 THEN 1 ELSE DivLimb(r0, nde[2], j - 1)],
              e |-> nde[3]],
             2 * rem > nde[2], 2 * rem = nde[2])

\* the carry out of limb j when the mantissa is multiplied by c
RECURSIVE MulCarry(_, _, _)
MulCarry(m, c, j) ==
  IF j > NumLimbs THEN 0 ELSE (m[j] * c + MulCarry(m, c, j + 1)) \div Base

\* x * c for a double x and an int 1 <= c < 2^12
FloatMul(x, c) ==
  IF x.m = FloatZero.m THEN FloatZero
  ELSE LET \* the exact product, limb 1 unreduced
           prod == [j \in 1..NumLimbs |->
                      IF j = 1 THEN x.m[1] * c + MulCarry(x.m, c, 2)
                      ELSE (x.m[j] * c + MulCarry(x.m, c, j + 1)) % Base]
           \* the product has s bits too many
           s    == CHOOSE k \in 0..(LimbBits - 1) :
                     2 ^ k <= prod[1] /\ prod[1] < 2 ^ (k + 1)
           kept == [j \in 1..NumLimbs |->
                      IF j = 1 THEN prod[1] \div (2 ^ s)
                      ELSE (prod[j] \div (2 ^ s))
                           + (prod[j - 1] % (2 ^ s)) * (2 ^ (LimbBits - s))]
           tail == prod[NumLimbs] % (2 ^ s)
       IN  RoundNearestEven([m |-> kept, e |-> x.e + s],
                            s > 0 /\ 2 * tail > 2 ^ s,
                            s > 0 /\ 2 * tail = 2 ^ s)

\* round() of a double 0 <= x < 2^13: the nearest int, halves to even
PyRound(x) ==
  IF x.m = FloatZero.m \/ x.e < -1 THEN 0
  ELSE IF x.e = -1
  THEN (IF \A j \in 2..NumLimbs : x.m[j] = 0 THEN 0 ELSE 1)
  ELSE LET int   == x.m[1] * (2 ^ x.e) + (x.m[2] \div (2 ^ (LimbBits - x.e)))
           frac  == x.m[2] % (2 ^ (LimbBits - x.e))
           half  == 2 ^ (LimbBits - x.e - 1)
           below == \A j \in 3..NumLimbs : x.m[j] = 0
       IN  IF frac > half \/ (frac = half /\ ~below) THEN int + 1
           ELSE IF frac = half /\ int % 2 = 1 THEN int + 1
           ELSE int

\* truncation instead of rounding
highest_complaint_percent_floor(max_complaints, total) ==
  (max_complaints * 100) \div total

\* line 111: round(max_complaints_against_one_company/total_num_of_complaints*100)
highest_complaint_percent(max_complaints, total) ==
  PyRound(FloatMul(FloatDiv(max_complaints, total), 100))

(***************************************************************************)
(* data_filter(row, num_columns).  Python's row[0], row[1] and row[7] are  *)
(* row[1], row[2] and row[8] here.  An index past the end of the row       *)
(* raises IndexError, which nothing in the program catches.                *)
(***************************************************************************)
IndexError == <<"IndexError">>

\* `<` instead of `!=`: only rows that are too short are rejected
data_filter_fewer(row, n) ==
  IF Len(row) < n THEN None
  ELSE IF Len(row) < 1 THEN IndexError
  ELSE IF get_year(row[1]) = None THEN None
  ELSE IF Len(row) < 8 THEN IndexError
  ELSE <<get_year(row[1])[1], clean_text(row[2]), clean_text(row[8])>>

data_filter(row, n) ==
  IF Len(row) # n THEN None
  ELSE IF Len(row) < 1 THEN IndexError
  ELSE IF get_year(row[1]) = None THEN None
  ELSE IF Len(row) < 8 THEN IndexError
  ELSE <<get_year(row[1])[1], clean_text(row[2]), clean_text(row[8])>>

(***************************************************************************)
(* data_dictionary[(product, year)][company] += 1 on a                     *)
(* defaultdict(lambda: defaultdict(int)).  The dictionary is a function    *)
(* from keys <<product, year>> to functions from companies to counts;      *)
(* key_order is the insertion order, which is the order of .items().       *)
(***************************************************************************)
EmptyDict == [k \in {} |-> 0]

\* a new company replaces the key's counts instead of joining them
increment_replace(dict, key, company) ==
  IF key \in DOMAIN dict /\ company \in DOMAIN dict[key]
  THEN [dict EXCEPT ![key][company] = @ + 1]
  ELSE [k \in (DOMAIN dict) \cup {key} |-> IF k = key THEN (company :> 1) ELSE dict[k]]

\* the default entry is created but not incremented
increment_create(dict, key, company) ==
  IF key \notin DOMAIN dict THEN dict @@ (key :> (company :> 0))
  ELSE IF company \notin DOMAIN dict[key]
  THEN [dict EXCEPT ![key] = @ @@ (company :> 0)]
  ELSE [dict EXCEPT ![key][company] = @ + 1]

increment(dict, key, company) ==
  IF key \notin DOMAIN dict THEN dict @@ (key :> (company :> 1))
  ELSE IF company \notin DOMAIN dict[key]
  THEN [dict EXCEPT ![key] = @ @@ (company :> 1)]
  ELSE [dict EXCEPT ![key][company] = @ + 1]

insertion_order(order, dict, key) ==
  IF key \in DOMAIN dict THEN order ELSE Append(order, key)

(***************************************************************************)
(* analyse_data                                                            *)
(***************************************************************************)
\* the inner loop: total_num_of_complaints
RECURSIVE total_num_of_complaints(_)
total_num_of_complaints(counts) ==
  IF DOMAIN counts = {} THEN 0
  ELSE LET company == CHOOSE c \in DOMAIN counts : TRUE
       IN  counts[company]
           + total_num_of_complaints([c \in (DOMAIN counts) \ {company} |-> counts[c]])

\* the inner loop: max_complaints_against_one_company
RECURSIVE max_complaints_against_one_company(_)
max_complaints_against_one_company(counts) ==
  IF DOMAIN counts = {} THEN 0
  ELSE LET company == CHOOSE c \in DOMAIN counts : TRUE
           rest == max_complaints_against_one_company(
                     [c \in (DOMAIN counts) \ {company} |-> counts[c]])
       IN  IF counts[company] > rest THEN counts[company] ELSE rest

total_num_of_companies(counts) == Cardinality(DOMAIN counts)

\* a zero total is tolerated
ZeroDivisionError_never(dict) == FALSE

\* line 111 divides by the group's total
ZeroDivisionError(dict) ==
  \E key \in DOMAIN dict : total_num_of_complaints(dict[key]) = 0

report_row(key, counts) ==
  <<key[1], key[2], total_num_of_complaints(counts), total_num_of_companies(counts),
    highest_complaint_percent(max_complaints_against_one_company(counts),
                              total_num_of_complaints(counts))>>

analyse_data(dict, order) ==
  [i \in 1..Len(order) |-> report_row(order[i], dict[order[i]])]

(***************************************************************************)
(* sort_write_csv                                                          *)
(***************************************************************************)
\* str < str: lexicographic by code point
RECURSIVE StrLess(_, _)
StrLess(a, b) ==
  IF b = <<>> THEN FALSE
  ELSE IF a = <<>> THEN TRUE
  ELSE IF a[1] # b[1] THEN Ord(a[1]) < Ord(b[1])
  ELSE StrLess(Tail(a), Tail(b))

\* the key is the product alone
KeyLess_product(x, y) == StrLess(x[1], y[1])

\* (x[0], x[1]) < (y[0], y[1])
KeyLess(x, y) ==
  \/ StrLess(x[1], y[1])
  \/ (x[1] = y[1] /\ x[2] < y[2])

\* stable insertion of x into a sorted list
RECURSIVE InsertSorted(_, _)
InsertSorted(x, list) ==
  IF list = <<>> THEN <<x>>
  ELSE IF KeyLess(x, list[1]) THEN <<x>> \o list
  ELSE <<list[1]>> \o InsertSorted(x, Tail(list))

\* the list is written as it is
sorted_not(list) == list

\* sorted(report_list, key=lambda x: (x[0], x[1]))
RECURSIVE sorted(_)
sorted(list) ==
  IF list = <<>> THEN <<>>
  ELSE InsertSorted(list[Len(list)], sorted(SubSeq(list, 1, Len(list) - 1)))

\* csv.writer: the fields of a row joined by commas, ints through str()
csv_line(row) ==
  row[1] \o <<",">> \o ToStr(row[2]) \o <<",">> \o ToStr(row[3]) \o <<",">>
         \o ToStr(row[4]) \o <<",">> \o ToStr(row[5])

writerows(rows) == [i \in 1..Len(rows) |-> csv_line(rows[i])]

(***************************************************************************)
(* Inputs: the files the pipeline is run on.  A file is a sequence of      *)
(* rows, the first one the header; a row is a sequence of fields.          *)
(***************************************************************************)
MaxRows == 3

Date_2021_01_01 == <<"2","0","2","1","-","0","1","-","0","1">>
Date_2021_02_01 == <<"2","0","2","1","-","0","2","-","0","1">>
Date_2021_06_15 == <<"2","0","2","1","-","0","6","-","1","5">>
Date_2019_12_31 == <<"2","0","1","9","-","1","2","-","3","1">>
Date_2020_02_29 == <<"2","0","2","0","-","0","2","-","2","9">>
Date_2020_13_40 == <<"2","0","2","0","-","1","3","-","4","0">>
Date_not_a_date == <<"n","o","t","-","a","-","d","a","t","e">>
Date_2021_6_5   == <<"2","0","2","1","-","6","-","5">>
Date_2021_02_29 == <<"2","0","2","1","-","0","2","-","2","9">>

Loan_  == <<"L","o","a","n"," ">>
loan   == <<"l","o","a","n">>
visa   == <<"v","i","s","a">>
BankX  == <<"B","a","n","k","X">>
bankx  == <<"b","a","n","k","x">>
PaddedAcme  == <<" ","A","c","m","e">>
acme   == <<"a","c","m","e">>

\* a row of n fields with the given date, product and company
MakeRow(n, date, product, company) ==
  [i \in 1..n |-> IF i = 1 THEN date
                  ELSE IF i = 2 THEN product
                  ELSE IF i = 8 THEN company
                  ELSE <<>>]

Rows ==
  { MakeRow(8, Date_2021_01_01, Loan_, BankX),
    MakeRow(8, Date_2021_02_01, loan,  bankx),
    MakeRow(8, Date_2021_06_15, visa,  PaddedAcme),
    MakeRow(8, Date_2019_12_31, loan,  acme),
    MakeRow(8, Date_2020_02_29, loan,  BankX),
    MakeRow(8, Date_2020_13_40, loan,  bankx),
    MakeRow(8, Date_not_a_date, visa,  acme),
    MakeRow(8, Date_2021_6_5,   visa,  acme),
    MakeRow(8, Date_2021_02_29, loan,  acme),
    MakeRow(8, Date_2021_06_15, loan,  acme),
    MakeRow(9, Date_2021_06_15, loan,  acme),
    MakeRow(3, Date_2021_06_15, loan,  acme) }

Headers == { MakeRow(n, <<"D">>, <<"P">>, <<"C">>) : n \in {3, 8} }

RowSeqs == UNION { [1..n -> Rows] : n \in 0..MaxRows }

Files == {<<>>} \cup { <<h>> \o rows : h \in Headers, rows \in RowSeqs }

(***************************************************************************)
(* The pipeline: main() = read_csv; analyse_data; sort_write_csv           *)
(***************************************************************************)
Init ==
  /\ csv_file \in Files
  /\ csv_reader = 1
  /\ num_columns = None
  /\ data_dictionary = EmptyDict
  /\ key_order = <<>>
  /\ report_output = <<>>
  /\ sorted_by_product_year = <<>>
  /\ output_file = None
  /\ pc = "header"
  /\ error = "none"

\* lines 78-79: header_row = next(csv_reader); num_columns = len(header_row)
ReadHeader ==
  /\ pc = "header"
  /\ IF csv_reader > Len(csv_file)
     THEN /\ pc' = "aborted"
          /\ error' = "StopIteration"
          /\ UNCHANGED <<csv_reader, num_columns>>
     ELSE /\ num_columns' = <<Len(csv_file[csv_reader])>>
          /\ csv_reader' = csv_reader + 1
          /\ pc' = "rows"
          /\ UNCHANGED error
  /\ UNCHANGED <<csv_file, data_dictionary, key_order, report_output,
                 sorted_by_product_year, output_file>>

\* lines 80-86: one iteration of `for row in csv_reader`
ReadRow ==
  /\ pc = "rows"
  /\ csv_reader <= Len(csv_file)
  /\ LET row == csv_file[csv_reader]
         filtered_row == data_filter(row, num_columns[1])
     IN  IF filtered_row = IndexError
         THEN /\ pc' = "aborted"
              /\ error' = "IndexError"
              /\ UNCHANGED <<csv_reader, data_dictionary, key_order>>
         ELSE IF filtered_row = None
         THEN /\ csv_reader' = csv_reader + 1
              /\ UNCHANGED <<data_dictionary, key_order, pc, error>>
         ELSE LET year    == filtered_row[1]
                  product == filtered_row[2]
                  company == filtered_row[3]
              IN  /\ data_dictionary' =
                       increment(data_dictionary, <<product, year>>, company)
                  /\ key_order' =
                       insertion_order(key_order, data_dictionary, <<product, year>>)
                  /\ csv_reader' = csv_reader + 1
                  /\ UNCHANGED <<pc, error>>
  /\ UNCHANGED <<csv_file, num_columns, report_output,
                 sorted_by_product_year, output_file>>

\* lines 87-88: the loop is over, read_csv returns data_dictionary
EndOfInput ==
  /\ pc = "rows"
  /\ csv_reader > Len(csv_file)
  /\ pc' = "analyse"
  /\ UNCHANGED <<csv_file, csv_reader, num_columns, data_dictionary, key_order,
                 report_output, sorted_by_product_year, output_file, error>>

\* line 133: report_output_unsorted = analyse_data(data_dict)
Analyse ==
  /\ pc = "analyse"
  /\ IF ZeroDivisionError(data_dictionary)
     THEN /\ pc' = "aborted"
          /\ error' = "ZeroDivisionError"
          /\ UNCHANGED report_output
     ELSE /\ report_output' = analyse_data(data_dictionary, key_order)
          /\ pc' = "write"
          /\ UNCHANGED error
  /\ UNCHANGED <<csv_file, csv_reader, num_columns, data_dictionary, key_order,
                 sorted_by_product_year, output_file>>

\* line 134: sort_write_csv(report_output_unsorted, OUTPUT_FILE_PATH)
SortWrite ==
  /\ pc = "write"
  /\ sorted_by_product_year' = sorted(report_output)
  /\ output_file' = writerows(sorted(report_output))
  /\ pc' = "done"
  /\ UNCHANGED <<csv_file, csv_reader, num_columns, data_dictionary, key_order,
                 report_output, error>>

Next == ReadHeader \/ ReadRow \/ EndOfInput \/ Analyse \/ SortWrite

Spec == Init /\ [][Next]_vars

(***************************************************************************)
(* analyse_data and sort_write_csv on an arbitrary aggregation: the        *)
(* dictionary handed to analyse_data is drawn from a bounded set, which    *)
(* includes groups whose counts are empty.                                 *)
(***************************************************************************)
MaxCount == 23
MaxCountSecond == 2

AnalyseCompanies == {bankx, acme}

CountsUpTo(n) == UNION { [cs -> 1..n] : cs \in SUBSET AnalyseCompanies }

FirstKey == <<visa, 2021>>
SecondKey == <<loan, 2019>>

Aggregations ==
  {EmptyDict}
  \cup { (FirstKey :> a) : a \in CountsUpTo(MaxCount) }
  \cup { (FirstKey :> a) @@ (SecondKey :> b) :
           a \in CountsUpTo(MaxCount), b \in CountsUpTo(MaxCountSecond) }

KeyOrders(dict) ==
  { order \in UNION { [1..n -> DOMAIN dict] : n \in {Cardinality(DOMAIN dict)} } :
      \A i, j \in DOMAIN order : i # j => order[i] # order[j] }

InitAnalyse ==
  /\ csv_file = <<>>
  /\ csv_reader = 1
  /\ num_columns = None
  /\ data_dictionary \in Aggregations
  /\ key_order \in KeyOrders(data_dictionary)
  /\ report_output = <<>>
  /\ sorted_by_product_year = <<>>
  /\ output_file = None
  /\ pc = "analyse"
  /\ error = "none"

NextAnalyse == Analyse \/ SortWrite

SpecAnalyse == InitAnalyse /\ [][NextAnalyse]_vars

(***************************************************************************)
(* Properties                                                              *)
(***************************************************************************)
Analysed == pc \in {"write", "done"}

\* the sum of a group's counts, counted as a set of complaints
SumOfCounts(counts) ==
  Cardinality({ cn \in (DOMAIN counts) \X (1..(MaxCount + MaxRows + 1)) :
                  cn[2] <= counts[cn[1]] })

\* the largest count of a non-empty group
LargestCount(counts) ==
  CHOOSE n \in { counts[c] : c \in DOMAIN counts } :
    \A c \in DOMAIN counts : counts[c] <= n

RowsOfGroup(key) ==
  { i \in 1..Len(report_output) :
      report_output[i][1] = key[1] /\ report_output[i][2] = key[2] }

\* p is an integer nearest to num / den
NearestInteger(p, num, den) ==
  /\ 2 * (p * den - num) <= den
  /\ 2 * (num - p * den) <= den

\* C1: after analyse_data every (product, year) group has exactly one report
\* row, with total_complaints the sum of the group's counts, total_companies
\* the number of its companies and highest_complaint_percent an integer
\* nearest to max(counts) * 100 / total_complaints; counts {3, 7} give
\* 10, 2, 70.
C1_OneRowPerGroup ==
  Analysed =>
    /\ Len(report_output) = Cardinality(DOMAIN data_dictionary)
    /\ \A key \in DOMAIN data_dictionary :
         /\ Cardinality(RowsOfGroup(key)) = 1
         /\ \A i \in RowsOfGroup(key) :
              /\ report_output[i][3] = SumOfCounts(data_dictionary[key])
              /\ report_output[i][4] = Cardinality(DOMAIN data_dictionary[key])
              /\ NearestInteger(report_output[i][5],
                                100 * LargestCount(data_dictionary[key]),
                                SumOfCounts(data_dictionary[key]))
              /\ (data_dictionary[key] = (bankx :> 3) @@ (acme :> 7)
                    => report_output[i] = <<key[1], key[2], 10, 2, 70>>)

C1_Witness ==
  /\ pc = "done"
  /\ DOMAIN data_dictionary = {FirstKey, SecondKey}
  /\ data_dictionary[FirstKey] = (bankx :> 3) @@ (acme :> 7)
  /\ \E i \in 1..Len(report_output) : report_output[i] = <<visa, 2021, 10, 2, 70>>

\* C8: when analyse_data is given a group whose counts are empty it fails
\* with an error, and no report row is produced or written.
C8_EmptyGroupFails ==
  (pc # "analyse" /\ \E key \in DOMAIN data_dictionary : DOMAIN data_dictionary[key] = {})
    => /\ pc = "aborted"
       /\ error = "ZeroDivisionError"
       /\ report_output = <<>>
       /\ output_file = None

C8_Witness ==
  /\ pc = "aborted"
  /\ error = "ZeroDivisionError"
  /\ DOMAIN data_dictionary = {FirstKey, SecondKey}
  /\ DOMAIN data_dictionary[SecondKey] = {}
  /\ DOMAIN data_dictionary[FirstKey] # {}
  /\ key_order[1] = FirstKey

\* the group of report row i has its exact percentage on k + 1/2
IsTie(i) ==
  LET counts == data_dictionary[<<report_output[i][1], report_output[i][2]>>]
  IN  (200 * LargestCount(counts)) % SumOfCounts(counts) = 0
      /\ ((200 * LargestCount(counts)) \div SumOfCounts(counts)) % 2 = 1

TieFloor(i) ==
  LET counts == data_dictionary[<<report_output[i][1], report_output[i][2]>>]
  IN  (100 * LargestCount(counts)) \div SumOfCounts(counts)

RoundHalfEven(k) == IF k % 2 = 0 THEN k ELSE k + 1
RoundHalfUp(k) == k + 1

\* C10: the percentages of the groups whose exact ratio lands on x.5 all
\* follow one rounding rule: all round half to even, or all round half up.
C10_SingleRoundingPolicy ==
  Analysed =>
    \/ \A i \in 1..Len(report_output) :
         IsTie(i) => report_output[i][5] = RoundHalfEven(TieFloor(i))
    \/ \A i \in 1..Len(report_output) :
         IsTie(i) => report_output[i][5] = RoundHalfUp(TieFloor(i))

(***************************************************************************)
(* Properties of the whole run                                             *)
(***************************************************************************)
AtRow == pc = "rows" /\ csv_reader <= Len(csv_file)
CurrentRow == csv_file[csv_reader]
Header8 == MakeRow(8, <<"D">>, <<"P">>, <<"C">>)

\* all complaints counted so far
CountedComplaints ==
  Cardinality({ kcn \in UNION { {k} \X (DOMAIN data_dictionary[k]) \X (1..(MaxRows + 1)) :
                                  k \in DOMAIN data_dictionary } :
                  kcn[3] <= data_dictionary[kcn[1]][kcn[2]] })

\* the data rows read so far whose field count is the header's
MatchingRowsRead ==
  { i \in 2..(csv_reader - 1) : Len(csv_file[i]) = Len(csv_file[1]) }

IsCalendarDate(s) ==
  /\ Len(s) = 10
  /\ \A i \in {1, 2, 3, 4, 6, 7, 9, 10} : IsDigit(s[i])
  /\ s[5] = "-" /\ s[8] = "-"
  /\ ToInt(SubSeq(s, 1, 4)) >= 1
  /\ ToInt(SubSeq(s, 6, 7)) \in 1..12
  /\ ToInt(SubSeq(s, 9, 10)) >= 1
  /\ ToInt(SubSeq(s, 9, 10))
       <= DaysInMonth(ToInt(SubSeq(s, 1, 4)), ToInt(SubSeq(s, 6, 7)))

YearOfDate(s) == ToInt(SubSeq(s, 1, 4))

CountAt(dict, key, company) ==
  IF key \in DOMAIN dict /\ company \in DOMAIN dict[key] THEN dict[key][company] ELSE 0

\* C3: a data row with the header's field count is accepted if and only if
\* its first field is a calendar date in YYYY-MM-DD form: otherwise it is
\* skipped and the aggregation stays as it was; an accepted row is counted
\* under the year of its date.
C3_AcceptedIffCalendarDate ==
  [][ (AtRow /\ Len(CurrentRow) = Len(csv_file[1]) /\ Len(CurrentRow) >= 1)
        => IF IsCalendarDate(CurrentRow[1])
           THEN /\ pc' = "rows"
                /\ data_dictionary' # data_dictionary
                /\ \E key \in DOMAIN data_dictionary' :
                     /\ key[2] = YearOfDate(CurrentRow[1])
                     /\ \E c \in DOMAIN data_dictionary'[key] :
                          data_dictionary'[key][c] = CountAt(data_dictionary, key, c) + 1
           ELSE /\ pc' = "rows"
                /\ data_dictionary' = data_dictionary ]_vars

\* C7: no data row aborts the run: whatever the header's column count, each
\* row is skipped or counted and the loop goes on to the next row.
C7_RowsNeverAbort ==
  [][ AtRow => /\ pc' = "rows"
               /\ csv_reader' = csv_reader + 1
               /\ error' = "none" ]_vars

\* C9: every key of the aggregation has at least one company and every
\* count is at least 1; reading a row either leaves the aggregation alone
\* or adds exactly 1 to exactly one count (a new key or company starting
\* from nothing), and only a row that passed the filter does so.
AllCompanies(dict) == UNION { DOMAIN dict[k] : k \in DOMAIN dict }

RowOrders ==
  [n \in 0..(MaxRows + 1) |->
     { p \in [1..n -> 1..n] : \A i, j \in 1..n : i # j => p[i] # p[j] }]

Permuted(file, p) ==
  [i \in 1..Len(file) |-> IF i = 1 THEN file[1] ELSE file[1 + p[i - 1]]]

\* read_csv's loop over rows with n expected columns
RECURSIVE ReadAll(_, _)
ReadAll(rows, n) ==
  IF rows = <<>> THEN [aborted |-> FALSE, dict |-> EmptyDict, order |-> <<>>]
  ELSE LET before == ReadAll(SubSeq(rows, 1, Len(rows) - 1), n)
           filtered_row == data_filter(rows[Len(rows)], n)
       IN  IF before.aborted \/ filtered_row = None THEN before
           ELSE IF filtered_row = IndexError
           THEN [aborted |-> TRUE, dict |-> before.dict, order |-> before.order]
           ELSE [aborted |-> FALSE,
                 dict  |-> increment(before.dict,
                                     <<filtered_row[2], filtered_row[1]>>, filtered_row[3]),
                 order |-> insertion_order(before.order, before.dict,
                                           <<filtered_row[2], filtered_row[1]>>)]

Range(seq) == { seq[i] : i \in 1..Len(seq) }

\* main() on a file with a header
RunOn(file) ==
  LET read == ReadAll(Tail(file), Len(file[1]))
      report == analyse_data(read.dict, read.order)
  IN  IF read.aborted
      THEN [aborted |-> TRUE, dict |-> EmptyDict, rows |-> {}, out |-> None]
      ELSE [aborted |-> FALSE, dict |-> read.dict, rows |-> Range(report),
            out |-> writerows(sorted(report))]

\* C4: the data rows of a file taken in any other order give the same
\* aggregation, the same set of report rows and the same written output.
C4_OrderOfRowsIrrelevant ==
  /\ pc = "done" =>
       \A p \in RowOrders[Len(csv_file) - 1] :
         RunOn(Permuted(csv_file, p)) =
           [aborted |-> FALSE, dict |-> data_dictionary,
            rows |-> Range(report_output), out |-> output_file]
  /\ (pc = "aborted" /\ error = "IndexError") =>
       \A p \in RowOrders[Len(csv_file) - 1] :
         RunOn(Permuted(csv_file, p)).aborted

C4_Witness ==
  /\ pc = "done"
  /\ csv_file = <<Header8, MakeRow(8, Date_2021_06_15, visa, PaddedAcme),
                  MakeRow(8, Date_2021_01_01, Loan_, BankX),
                  MakeRow(8, Date_2021_06_15, loan, acme)>>
  /\ key_order = << <<visa, 2021>>, <<loan, 2021>> >>
  /\ data_dictionary[<<loan, 2021>>] = (bankx :> 1) @@ (acme :> 1)

\* a < b as strings, character by character
LexLess(a, b) ==
  \E k \in 1..(Len(b)) :
    /\ \A i \in 1..(k - 1) : i <= Len(a) /\ a[i] = b[i]
    /\ (k > Len(a) \/ (k <= Len(a) /\ Ord(a[k]) < Ord(b[k])))

\* C5: the written report has exactly one row per (product, year) group
\* and its rows are in strictly ascending order of (product, year), product
\* compared as a string and year as an integer, whatever the order of the
\* rows analyse_data returned: groups (visa, 2021), (loan, 2019),
\* (loan, 2020) come out as (loan, 2019), (loan, 2020), (visa, 2021).
C5_SortedByProductYear ==
  pc = "done" =>
    /\ Len(sorted_by_product_year) = Cardinality(DOMAIN data_dictionary)
    /\ Len(output_file) = Cardinality(DOMAIN data_dictionary)
    /\ Range(sorted_by_product_year) = Range(report_output)
    /\ \A key \in DOMAIN data_dictionary :
         \E i \in 1..Len(sorted_by_product_year) :
           /\ sorted_by_product_year[i][1] = key[1]
           /\ sorted_by_product_year[i][2] = key[2]
           /\ output_file[i] = csv_line(sorted_by_product_year[i])
    /\ \A i, j \in 1..Len(sorted_by_product_year) :
         i < j =>
           \/ LexLess(sorted_by_product_year[i][1], sorted_by_product_year[j][1])
           \/ /\ sorted_by_product_year[i][1] = sorted_by_product_year[j][1]
              /\ sorted_by_product_year[i][2] < sorted_by_product_year[j][2]
    /\ (DOMAIN data_dictionary = {<<visa, 2021>>, <<loan, 2019>>, <<loan, 2020>>}
          => /\ sorted_by_product_year[1][2] = 2019
             /\ sorted_by_product_year[2][2] = 2020
             /\ sorted_by_product_year[3][1] = visa)

C5_Witness ==
  /\ pc = "done"
  /\ key_order = << <<visa, 2021>>, <<loan, 2020>>, <<loan, 2019>> >>
  /\ sorted_by_product_year[1] = <<loan, 2019, 1, 1, 100>>
  /\ sorted_by_product_year[2] = <<loan, 2020, 1, 1, 100>>
  /\ sorted_by_product_year[3] = <<visa, 2021, 1, 1, 100>>

\* the same letter, whatever its case
SameLetter(c, d) ==
  \/ c = d
  \/ \E i \in 1..Len(UpperCase) : {c, d} = {UpperCase[i], LowerCase[i]}

\* s without its leading and trailing whitespace
Trimmed(s) ==
  LET inner == { i \in 1..Len(s) : s[i] \notin Whitespace }
  IN  IF inner = {} THEN <<>>
      ELSE SubSeq(s, CHOOSE i \in inner : \A j \in inner : i <= j,
                     CHOOSE i \in inner : \A j \in inner : j <= i)

\* a and b differ only in letter case and surrounding whitespace
SameText(a, b) ==
  /\ Len(Trimmed(a)) = Len(Trimmed(b))
  /\ \A i \in 1..Len(Trimmed(a)) : SameLetter(Trimmed(a)[i], Trimmed(b)[i])

\* the data rows read so far that passed the filter
AcceptedRows ==
  { i \in 2..(csv_reader - 1) :
      Len(csv_file[i]) = Len(csv_file[1]) /\ get_year(csv_file[i][1]) # None }

\* C6: clean_text is idempotent on every field, and accepted rows of one
\* year whose products and companies differ only in letter case or
\* surrounding whitespace are counted in one and the same company count of
\* one group; the two rows "Loan "/"BankX" and "loan"/"bankx" of 2021 give
\* the single output line loan,2021,2,1,100.
C6_VariantsMerge ==
  /\ AtRow =>
       \A f \in 1..Len(CurrentRow) :
         clean_text(clean_text(CurrentRow[f])) = clean_text(CurrentRow[f])
  /\ pc = "analyse" =>
       \A i \in AcceptedRows :
         LET same == { j \in AcceptedRows :
                         /\ get_year(csv_file[j][1]) = get_year(csv_file[i][1])
                         /\ SameText(csv_file[j][2], csv_file[i][2])
                         /\ SameText(csv_file[j][8], csv_file[i][8]) }
             keys == { k \in DOMAIN data_dictionary :
                         /\ k[2] = get_year(csv_file[i][1])[1]
                         /\ SameText(k[1], csv_file[i][2]) }
         IN  /\ Cardinality(keys) = 1
             /\ \A k \in keys :
                  /\ Cardinality({ c \in DOMAIN data_dictionary[k] :
                                     SameText(c, csv_file[i][8]) }) = 1
                  /\ \A c \in DOMAIN data_dictionary[k] :
                       SameText(c, csv_file[i][8])
                         => data_dictionary[k][c] = Cardinality(same)
  /\ (pc = "done" /\ csv_file = <<Header8, MakeRow(8, Date_2021_01_01, Loan_, BankX),
                                  MakeRow(8, Date_2021_02_01, loan, bankx)>>)
       => output_file = << <<"l","o","a","n",",","2","0","2","1",",","2",",","1",",",
                             "1","0","0">> >>

C6_Witness ==
  /\ pc = "done"
  /\ csv_file = <<Header8, MakeRow(8, Date_2021_01_01, Loan_, BankX),
                  MakeRow(8, Date_2021_02_01, loan, bankx)>>
  /\ Len(output_file) = 1

====
